---- MODULE Spec2Model ----
(***************************************************************************)
(* Model of validate_telco_data (src/utils/validate_data2.py): one call    *)
(* validates the caller's batch against the rule set of VALIDATION_CONFIG  *)
(* through an expectation engine, coercing the numeric columns in place.   *)
(*                                                                         *)
(* Numbers are fixed-point with one decimal digit: a numeric cell holds    *)
(* its value in tenths (65.5 is 655), and the bounds of the configuration  *)
(* are multiplied by 10 where they are compared.                           *)
(***************************************************************************)
EXTENDS Integers, Sequences, FiniteSets, TLC

\* df: the caller's batch; orig: the batch as it was supplied; ret: what the
\* last call returned or raised; calls: the calls made so far; trace: the phases
\* the last call entered; results: results.results of the last call; config:
\* VALIDATION_CONFIG; catch_exceptions: whether the validator turns an error of an
\* interactively evaluated expectation into a failed result instead of raising
\* it (a setting of the engine the source does not fix, so both are covered).
VARIABLES df, orig, ret, calls, trace, results, config, catch_exceptions

vars == <<df, orig, ret, calls, trace, results, config, catch_exceptions>>

\* ------------------------------------------------------------------ bounds
MaxRows == 2
MaxCalls == 2
MaxMostlyRows == 50
MaxBelowRows == 4

\* ------------------------------------------------------------------- cells
Null == [t |-> "null", s |-> "", n |-> 0]
Str(x) == [t |-> "str", s |-> x, n |-> 0]
Num(k) == [t |-> "num", s |-> "", n |-> k]
Dec(i, f) == Num(10 * i + f)

IsNull(c) == c.t = "null"

\* The strings of the model that parse as numbers, with their values in tenths.
NumericLiterals == ("12" :> 120) @@ ("0" :> 0) @@ ("300" :> 3000) @@ ("65.5" :> 655)

\* pd.to_numeric(..., errors="coerce") on one value: a number stays, a string
\* that parses becomes its number, anything else becomes NaN (a null).
to_numeric(c) ==
    IF c.t = "num" THEN c
    ELSE IF c.t = "str" /\ c.s \in DOMAIN NumericLiterals THEN Num(NumericLiterals[c.s])
    ELSE Null

fillna_omitted(c) == c

\* .fillna(0) on one value.
fillna0(c) == IF IsNull(c) THEN Num(0) ELSE c

\* ----------------------------------------------------------- configuration
MinTenure == 0
MaxTenure == 120
MinMonthlyCharges == 0
MaxMonthlyCharges == 200
MinTotalCharges == 0
MaxTotalCharges == 10000
MostlyPercent == 95
MinRowCount == 1
MaxRowCount == 1000000

VALIDATION_CONFIG ==
    [required_columns |->
        <<"customerID", "gender", "Partner", "Dependents", "PhoneService",
          "InternetService", "Contract", "tenure", "MonthlyCharges", "TotalCharges">>,
     categorical_constraints |->
        <<[col |-> "gender", allowed |-> {"Male", "Female"}],
          [col |-> "Partner", allowed |-> {"Yes", "No"}],
          [col |-> "Dependents", allowed |-> {"Yes", "No"}],
          [col |-> "PhoneService", allowed |-> {"Yes", "No"}],
          [col |-> "Contract", allowed |-> {"Month-to-month", "One year", "Two year"}],
          [col |-> "InternetService", allowed |-> {"DSL", "Fiber optic", "No"}]>>,
     numeric_ranges |->
        <<[col |-> "tenure", min |-> MinTenure, max |-> MaxTenure],
          [col |-> "MonthlyCharges", min |-> MinMonthlyCharges, max |-> MaxMonthlyCharges],
          [col |-> "TotalCharges", min |-> MinTotalCharges, max |-> MaxTotalCharges]>>,
     non_nullable_columns |->
        <<"customerID", "gender", "tenure", "MonthlyCharges", "TotalCharges", "Contract">>]

Range(s) == {s[i] : i \in DOMAIN s}

RequiredColumns == Range(VALIDATION_CONFIG.required_columns)
NumericColumns ==
    {VALIDATION_CONFIG.numeric_ranges[i].col : i \in DOMAIN VALIDATION_CONFIG.numeric_ranges}
NonNullableColumns == Range(VALIDATION_CONFIG.non_nullable_columns)

\* ------------------------------------------------------------------- rules
\* One expectation of the suite: its type, its kwargs and the expectation_context
\* the result processing reads as the rule's identifier.  The calls that build
\* the rules pass no context, so every rule carries the engine's default.
NoContext == "None"

Rule(type, kwargs) == [type |-> type, kwargs |-> kwargs, expectation_context |-> NoContext]

SchemaRules(cfg) ==
    [i \in DOMAIN cfg.required_columns |->
        Rule("expect_column_to_exist", [column |-> cfg.required_columns[i]])]

NullRules(cfg) ==
    [i \in DOMAIN cfg.non_nullable_columns |->
        Rule("expect_column_values_to_not_be_null", [column |-> cfg.non_nullable_columns[i]])]

CategoricalRules(cfg) ==
    [i \in DOMAIN cfg.categorical_constraints |->
        Rule("expect_column_values_to_be_in_set",
             [column |-> cfg.categorical_constraints[i].col,
              value_set |-> cfg.categorical_constraints[i].allowed])]

RangeRules(cfg) ==
    [i \in DOMAIN cfg.numeric_ranges |->
        Rule("expect_column_values_to_be_between",
             [column |-> cfg.numeric_ranges[i].col,
              min_value |-> cfg.numeric_ranges[i].min,
              max_value |-> cfg.numeric_ranges[i].max])]

ConsistencyRules ==
    <<Rule("expect_column_pair_values_A_to_be_greater_than_B",
           [column_A |-> "TotalCharges", column_B |-> "MonthlyCharges",
            or_equal |-> TRUE, mostly |-> MostlyPercent])>>

CardinalityRules ==
    <<Rule("expect_table_row_count_to_be_between",
           [min_value |-> MinRowCount, max_value |-> MaxRowCount])>>

\* The rules evaluated before the numeric coercion, and those evaluated after it.
RulesBeforeCoercion(cfg) == SchemaRules(cfg) \o NullRules(cfg) \o CategoricalRules(cfg)
RulesAfterCoercion(cfg) == RangeRules(cfg) \o ConsistencyRules \o CardinalityRules

\* The suite the validator holds once every expect_* call was made.
Suite(cfg) == RulesBeforeCoercion(cfg) \o RulesAfterCoercion(cfg)

\* ------------------------------------------------------------------ batches
\* The caller's argument: None, a pandas DataFrame (its column names and its rows,
\* each row a function from the column names to a cell), or an object that is no
\* DataFrame (a plain list of row dicts).
NoneDf == [kind |-> "none", cols |-> {}, rows |-> <<>>]
Frame(cols, rows) == [kind |-> "frame", cols |-> cols, rows |-> rows]
ListOf(rows) == [kind |-> "list", cols |-> {}, rows |-> rows]

\* len(df)
len(d) == Len(d.rows)

\* df.empty: any axis of the frame has length 0.
empty(d) == Len(d.rows) = 0 \/ d.cols = {}

\* --------------------------------------------------------------- the engine
\* The outcome of one expectation on the batch: whether it succeeded, and whether
\* computing it raised (its column is not in the batch, or a value of the column
\* cannot be compared with a number).
Outcome(success, raised) == [success |-> success, raised |-> raised]

expect_column_to_exist(d, kw) == Outcome(kw.column \in d.cols, FALSE)

expect_column_values_to_not_be_null(d, kw) ==
    IF kw.column \notin d.cols THEN Outcome(FALSE, TRUE)
    ELSE Outcome(\A i \in DOMAIN d.rows : ~IsNull(d.rows[i][kw.column]), FALSE)

\* Null values are not part of a column-map expectation's domain.
expect_column_values_to_be_in_set(d, kw) ==
    IF kw.column \notin d.cols THEN Outcome(FALSE, TRUE)
    ELSE Outcome(\A i \in DOMAIN d.rows :
                    LET c == d.rows[i][kw.column]
                    IN  IsNull(c) \/ (c.t = "str" /\ c.s \in kw.value_set),
                 FALSE)

expect_column_values_to_be_strictly_between(d, kw) ==
    IF kw.column \notin d.cols THEN Outcome(FALSE, TRUE)
    ELSE IF \E i \in DOMAIN d.rows : d.rows[i][kw.column].t = "str"
         THEN Outcome(FALSE, TRUE)
    ELSE Outcome(\A i \in DOMAIN d.rows :
                    LET c == d.rows[i][kw.column]
                    IN  IsNull(c) \/ (10 * kw.min_value < c.n /\ c.n < 10 * kw.max_value),
                 FALSE)

expect_column_values_to_be_between(d, kw) ==
    IF kw.column \notin d.cols THEN Outcome(FALSE, TRUE)
    ELSE IF \E i \in DOMAIN d.rows : d.rows[i][kw.column].t = "str"
         THEN Outcome(FALSE, TRUE)
    ELSE Outcome(\A i \in DOMAIN d.rows :
                    LET c == d.rows[i][kw.column]
                    IN  IsNull(c) \/ (10 * kw.min_value <= c.n /\ c.n <= 10 * kw.max_value),
                 FALSE)

\* The rows of the pair expectation's domain: those where not both values are
\* missing (ignore_row_if = "both_values_are_missing", the default).
PairDomain(d, kw) ==
    {i \in DOMAIN d.rows : ~(IsNull(d.rows[i][kw.column_A]) /\ IsNull(d.rows[i][kw.column_B]))}

\* A row of the domain is unexpected unless A > B (A >= B with or_equal); a
\* comparison with a missing value is false.
PairUnexpected(d, kw) ==
    {i \in PairDomain(d, kw) :
        LET a == d.rows[i][kw.column_A]
            b == d.rows[i][kw.column_B]
        IN  ~(~IsNull(a) /\ ~IsNull(b) /\ (IF kw.or_equal THEN a.n >= b.n ELSE a.n > b.n))}

mostly_success_strict(count, unexpected, mostly) ==
    100 * (count - unexpected) > mostly * count

\* success_ratio >= mostly, with mostly in hundredths.
mostly_success(count, unexpected, mostly) == 100 * (count - unexpected) >= mostly * count

expect_column_pair_values_A_to_be_greater_than_B(d, kw) ==
    IF kw.column_A \notin d.cols \/ kw.column_B \notin d.cols THEN Outcome(FALSE, TRUE)
    ELSE IF \E i \in DOMAIN d.rows :
                d.rows[i][kw.column_A].t = "str" \/ d.rows[i][kw.column_B].t = "str"
         THEN Outcome(FALSE, TRUE)
    ELSE Outcome(mostly_success(Cardinality(PairDomain(d, kw)),
                                Cardinality(PairUnexpected(d, kw)), kw.mostly),
                 FALSE)

expect_table_row_count_to_be_between(d, kw) ==
    Outcome(kw.min_value <= len(d) /\ len(d) <= kw.max_value, FALSE)

Evaluate(rule, d) ==
    CASE rule.type = "expect_column_to_exist" -> expect_column_to_exist(d, rule.kwargs)
      [] rule.type = "expect_column_values_to_not_be_null" ->
            expect_column_values_to_not_be_null(d, rule.kwargs)
      [] rule.type = "expect_column_values_to_be_in_set" ->
            expect_column_values_to_be_in_set(d, rule.kwargs)
      [] rule.type = "expect_column_values_to_be_between" ->
            expect_column_values_to_be_between(d, rule.kwargs)
      [] rule.type = "expect_column_pair_values_A_to_be_greater_than_B" ->
            expect_column_pair_values_A_to_be_greater_than_B(d, rule.kwargs)
      [] rule.type = "expect_table_row_count_to_be_between" ->
            expect_table_row_count_to_be_between(d, rule.kwargs)

\* A validator.expect_*(...) call evaluates its expectation at once; an error of
\* that evaluation is raised to the caller of expect_* unless the validator
\* catches exceptions.
InteractiveRaises(rules, d, catch) ==
    ~catch /\ \E i \in DOMAIN rules : Evaluate(rules[i], d).raised

\* The results up to the first failed one.
RECURSIVE UpToFirstFailure(_, _)
UpToFirstFailure(res, i) ==
    IF i > Len(res) THEN res
    ELSE IF ~res[i].success THEN SubSeq(res, 1, i)
    ELSE UpToFirstFailure(res, i + 1)

validate_fail_fast(suite, d) ==
    UpToFirstFailure(
        [i \in DOMAIN suite |->
            [expectation_config |-> suite[i],
             success |-> LET o == Evaluate(suite[i], d) IN o.success /\ ~o.raised]], 1)

\* validator.validate(): every expectation of the suite, in the order it was
\* added, on the batch as it is now; an expectation whose evaluation raised is
\* reported as failed.
validate(suite, d) ==
    [i \in DOMAIN suite |->
        [expectation_config |-> suite[i],
         success |-> LET o == Evaluate(suite[i], d) IN o.success /\ ~o.raised]]

\* results.success
suite_success(res) == \A i \in DOMAIN res : res[i].success

\* ------------------------------------------------------- validate_telco_data
CoerceColumnDropna(d, col) ==
    [d EXCEPT !.rows = SelectSeq([i \in DOMAIN d.rows |->
                                     [d.rows[i] EXCEPT ![col] = to_numeric(@)]],
                                 LAMBDA r : ~IsNull(r[col]))]

\* df[col] = pd.to_numeric(df[col], errors="coerce").fillna(0): the column of
\* the caller's frame is replaced in place.
CoerceColumn(d, col) ==
    [d EXCEPT !.rows = [i \in DOMAIN d.rows |->
                           [d.rows[i] EXCEPT ![col] = fillna0(to_numeric(@))]]]

\* The coercion loop over the numeric columns, from the i-th on: df[col] of a
\* column the frame lacks raises KeyError and leaves the loop.
RECURSIVE CoerceFrom(_, _, _)
CoerceFrom(d, ranges, i) ==
    IF i > Len(ranges) THEN [df |-> d, ok |-> TRUE, missing |-> ""]
    ELSE IF ranges[i].col \notin d.cols
         THEN [df |-> d, ok |-> FALSE, missing |-> ranges[i].col]
    ELSE CoerceFrom(CoerceColumn(d, ranges[i].col), ranges, i + 1)

CoerceNumeric(d, cfg) == CoerceFrom(d, cfg.numeric_ranges, 1)

\* What a call leaves behind.
NotCalled == [kind |-> "none"]
Returned(success, failed, details) ==
    [kind |-> "return", success |-> success, failed_checks |-> failed, details |-> details]
Propagated(exc) == [kind |-> "raise", exc |-> exc]

\* The early exit for an absent or empty batch.
EmptyResult ==
    Returned(FALSE, <<"empty_dataframe">>,
             [total_checks |-> 0, passed |-> 0, failed |-> 0, row_count |-> 0])

\* The except clause: the generic failure result.
ErrorResult(d, e) ==
    Returned(FALSE, <<"validation_error">>, [error |-> e, row_count |-> len(d)])

MetricResolutionError == [type |-> "MetricResolutionError", arg |-> ""]
KeyError(col) == [type |-> "KeyError", arg |-> col]

\* The failed results, in the order of the suite.
FailedResults(res) == SelectSeq(res, LAMBDA r : ~r.success)

\* The identifier the loop over results.results appends for a failed result.
Identifier(r) == r.expectation_config.expectation_context

failed_expectations(res) ==
    LET failed == FailedResults(res)
    IN  [i \in DOMAIN failed |-> Identifier(failed[i])]

FailedDetail(r) ==
    [expectation |-> Identifier(r),
     kwargs |-> r.expectation_config.kwargs,
     message |-> "No details available"]

failed_details(res) ==
    LET failed == FailedResults(res)
    IN  [i \in DOMAIN failed |-> FailedDetail(failed[i])]

passed_checks(res) == Cardinality({i \in DOMAIN res : res[i].success})

\* Result processing: from the engine's results to the returned tuple.
Aggregate(res, d) ==
    Returned(suite_success(res), failed_expectations(res),
             [total_checks |-> Len(res),
              passed |-> passed_checks(res),
              failed |-> Len(res) - passed_checks(res),
              row_count |-> len(d),
              failed_details |-> failed_details(res)])

\* The data the validator evaluates after the coercion loop has run: Batch(data=df)
\* keeps the caller's frame itself, not a copy, so the validator sees the frame as
\* coerced.
ValidatorBatchCopied(before, coerced) == before

ValidatorBatch(before, coerced) == coerced

\* The body of the try block on a non-empty frame d: the frame it leaves, the
\* value returned, the phases entered and the engine's results.
Exit(d, r, tr, res) == [df |-> d, ret |-> r, trace |-> tr, results |-> res]

TryBlock(d, cfg, catch) ==
    LET co == CoerceNumeric(d, cfg)
        fail(at, tr) == Exit(at, ErrorResult(at, MetricResolutionError), tr \o <<"except">>, <<>>)
        vb == ValidatorBatch(d, co.df)
        res == validate(Suite(cfg), vb)
    IN  IF InteractiveRaises(SchemaRules(cfg), d, catch)
        THEN fail(d, <<"schema">>)
        ELSE IF InteractiveRaises(NullRules(cfg), d, catch)
        THEN fail(d, <<"schema", "null">>)
        ELSE IF InteractiveRaises(CategoricalRules(cfg), d, catch)
        THEN fail(d, <<"schema", "null", "categorical">>)
        ELSE IF ~co.ok
        THEN Exit(co.df, ErrorResult(co.df, KeyError(co.missing)),
                  <<"schema", "null", "categorical", "coerce", "except">>, <<>>)
        ELSE IF InteractiveRaises(RangeRules(cfg), vb, catch)
        THEN fail(co.df, <<"schema", "null", "categorical", "coerce", "range">>)
        ELSE IF InteractiveRaises(ConsistencyRules, vb, catch)
        THEN fail(co.df, <<"schema", "null", "categorical", "coerce", "range", "consistency">>)
        ELSE IF InteractiveRaises(CardinalityRules, vb, catch)
        THEN fail(co.df, <<"schema", "null", "categorical", "coerce", "range", "consistency",
                           "cardinality">>)
        ELSE Exit(co.df, Aggregate(res, co.df),
                  <<"schema", "null", "categorical", "coerce", "range", "consistency",
                    "cardinality", "validate", "aggregate">>, res)

\* The guard of the function: `df is None or df.empty`.  An argument that is
\* neither None nor a DataFrame has no attribute `empty`.
GuardRaises(d) == d.kind = "list"
GuardEmptyNoneOnly(d) == d.kind = "none"

GuardEmpty(d) == d.kind = "none" \/ empty(d)

\* ----------------------------------------------------------------- actions
\* A call whose guard raises: outside the try block, so the error reaches the caller.
CallGuardRaises ==
    /\ calls < MaxCalls
    /\ GuardRaises(df)
    /\ ret' = Propagated([type |-> "AttributeError", arg |-> "empty"])
    /\ trace' = <<>>
    /\ results' = <<>>
    /\ calls' = calls + 1
    /\ UNCHANGED <<df, orig, config, catch_exceptions>>

\* A call on an absent or empty batch.
CallEmpty ==
    /\ calls < MaxCalls
    /\ ~GuardRaises(df)
    /\ GuardEmpty(df)
    /\ ret' = EmptyResult
    /\ trace' = <<>>
    /\ results' = <<>>
    /\ calls' = calls + 1
    /\ UNCHANGED <<df, orig, config, catch_exceptions>>

\* A call that enters the try block.
CallValidate ==
    /\ calls < MaxCalls
    /\ ~GuardRaises(df)
    /\ ~GuardEmpty(df)
    /\ \E out \in {TryBlock(df, config, catch_exceptions)} :
           /\ df' = out.df
           /\ ret' = out.ret
           /\ trace' = out.trace
           /\ results' = out.results
    /\ calls' = calls + 1
    /\ UNCHANGED <<orig, config, catch_exceptions>>

validate_telco_data == CallGuardRaises \/ CallEmpty \/ CallValidate

Next == validate_telco_data

\* ------------------------------------------------------------------ inputs
\* The three rows of the sample batch of the module's demo block.
SampleRow1 ==
    [customerID |-> Str("C001"), gender |-> Str("Male"), Partner |-> Str("Yes"),
     Dependents |-> Str("No"), PhoneService |-> Str("Yes"), InternetService |-> Str("DSL"),
     Contract |-> Str("Month-to-month"), tenure |-> Dec(12, 0),
     MonthlyCharges |-> Dec(65, 5), TotalCharges |-> Dec(786, 0), Churn |-> Str("No")]
SampleRow2 ==
    [customerID |-> Str("C002"), gender |-> Str("Female"), Partner |-> Str("No"),
     Dependents |-> Str("Yes"), PhoneService |-> Str("Yes"),
     InternetService |-> Str("Fiber optic"), Contract |-> Str("One year"),
     tenure |-> Dec(24, 0), MonthlyCharges |-> Dec(85, 0), TotalCharges |-> Dec(2040, 0),
     Churn |-> Str("No")]
SampleRow3 ==
    [customerID |-> Str("C003"), gender |-> Str("Male"), Partner |-> Str("Yes"),
     Dependents |-> Str("No"), PhoneService |-> Str("No"), InternetService |-> Str("No"),
     Contract |-> Str("Two year"), tenure |-> Dec(6, 0), MonthlyCharges |-> Dec(45, 0),
     TotalCharges |-> Dec(270, 0), Churn |-> Str("Yes")]

\* Rows on the bounds of the numeric ranges.
LowRow ==
    [SampleRow2 EXCEPT !.tenure = Dec(MinTenure, 0),
                       !.MonthlyCharges = Dec(MinMonthlyCharges, 0),
                       !.TotalCharges = Dec(MinTotalCharges, 0)]
HighRow ==
    [SampleRow3 EXCEPT !.tenure = Dec(MaxTenure, 0),
                       !.MonthlyCharges = Dec(MaxMonthlyCharges, 0),
                       !.TotalCharges = Dec(MaxTotalCharges, 0)]

\* One cell of the first sample row replaced: nulls, values outside the domains,
\* strings in numeric columns (parsable or not), values next to the bounds.
Edits ==
    {<<"customerID", Null>>,
     <<"gender", Null>>, <<"gender", Str("male")>>,
     <<"Partner", Null>>,
     <<"Dependents", Num(10)>>,
     <<"PhoneService", Str("yes")>>,
     <<"InternetService", Str("Cable")>>,
     <<"Contract", Null>>, <<"Contract", Str("Monthly")>>,
     <<"tenure", Null>>, <<"tenure", Str("N/A")>>, <<"tenure", Str("12")>>,
     <<"tenure", Dec(0, -1)>>, <<"tenure", Dec(MaxTenure, 1)>>,
     <<"MonthlyCharges", Str("N/A")>>, <<"MonthlyCharges", Str("300")>>,
     <<"MonthlyCharges", Dec(MaxMonthlyCharges, 1)>>,
     <<"TotalCharges", Null>>, <<"TotalCharges", Str("N/A")>>,
     <<"TotalCharges", Str("65.5")>>, <<"TotalCharges", Dec(65, 4)>>,
     <<"TotalCharges", Dec(MaxTotalCharges, 1)>>}

Edited(e) == [SampleRow1 EXCEPT ![e[1]] = e[2]]

RowKinds == {SampleRow1, LowRow, HighRow} \cup {Edited(e) : e \in Edits}

\* The rows used where the batch lacks a column.
FewRowKinds ==
    {SampleRow1, Edited(<<"tenure", Str("N/A")>>), Edited(<<"TotalCharges", Null>>),
     Edited(<<"gender", Str("male")>>)}

AllColumns == RequiredColumns \cup {"Churn"}

Project(row, cols) == [c \in cols |-> row[c]]

FrameOf(cols, rows) == Frame(cols, [i \in DOMAIN rows |-> Project(rows[i], cols)])

SeqsUpTo(S, n) == UNION {[1..k -> S] : k \in 0..n}

SampleBatch == FrameOf(RequiredColumns, <<SampleRow1, SampleRow2, SampleRow3>>)

\* Frames with every required column.
FullFrames == {FrameOf(RequiredColumns, rows) : rows \in SeqsUpTo(RowKinds, MaxRows)}

\* Frames lacking one required column, with a column that is not required, or
\* with no column at all.
OtherColumnSets ==
    {RequiredColumns \ {c} : c \in RequiredColumns} \cup {AllColumns, {}}

OtherFrames ==
    {FrameOf(cols, rows) : cols \in OtherColumnSets, rows \in SeqsUpTo(FewRowKinds, MaxRows)}

Batches ==
    {NoneDf, ListOf(<<>>), ListOf(<<SampleRow1>>), SampleBatch} \cup FullFrames \cup OtherFrames

\* Larger frames for the tolerance of the consistency rule: n rows of which the
\* first k have TotalCharges below MonthlyCharges (as a number, or as a string
\* the coercion turns into 0), the others above it or equal to it.
BelowRows == {Edited(<<"TotalCharges", Dec(65, 4)>>), Edited(<<"TotalCharges", Str("N/A")>>)}
AtLeastRows == {SampleRow1, Edited(<<"TotalCharges", Dec(65, 5)>>)}

MostlyFrames ==
    {FrameOf(RequiredColumns, [i \in 1..n |-> IF i <= k THEN bad ELSE good]) :
        n \in 1..MaxMostlyRows, k \in 0..MaxBelowRows, bad \in BelowRows, good \in AtLeastRows}

MostlyBatches == {NoneDf, ListOf(<<>>)} \cup MostlyFrames

\* ------------------------------------------------------------ specification
InitWith(batches) ==
    /\ df \in batches
    /\ orig = df
    /\ ret = NotCalled
    /\ calls = 0
    /\ trace = <<>>
    /\ results = <<>>
    /\ config = VALIDATION_CONFIG
    /\ catch_exceptions \in BOOLEAN

Init == InitWith(Batches)

Spec == Init /\ [][Next]_vars

MostlyInit == InitWith(MostlyBatches)

SpecMostly == MostlyInit /\ [][Next]_vars

\* ------------------------------------------------------------------ claims
Called == calls >= 1

\* The batch as supplied is a DataFrame with rows and columns.
NonEmptyFrame(d) == d.kind = "frame" /\ Len(d.rows) > 0 /\ d.cols # {}

HasRequiredColumns(d) == RequiredColumns \subseteq d.cols

\* A cell that does not hold a number: null, or a string that does not parse.
NotNumeric(c) == c.t = "null" \/ (c.t = "str" /\ c.s \notin DOMAIN NumericLiterals)

\* The number (in tenths) a numeric cell or a parsable string stands for.
NumberOf(c) == IF c.t = "num" THEN c.n ELSE NumericLiterals[c.s]

Returns == ret.kind = "return"

\* The result of the suite's rule of the given type on the given column.
RuleResult(type, col) ==
    CHOOSE r \in Range(results) :
        /\ r.expectation_config.type = type
        /\ r.expectation_config.kwargs.column = col

ConsistencyResult ==
    CHOOSE r \in Range(results) :
        r.expectation_config.type = "expect_column_pair_values_A_to_be_greater_than_B"

\* C1: a call on an absent batch or on a batch with zero rows returns at once
\* with success = false, failed_checks = ["empty_dataframe"] and all counts 0;
\* no rule is evaluated and the batch is not coerced.
C1_EmptyBatchExit ==
    (Called /\ (orig.kind = "none" \/ (orig.kind = "frame" /\ Len(orig.rows) = 0)))
        => /\ Returns
           /\ ret.success = FALSE
           /\ ret.failed_checks = <<"empty_dataframe">>
           /\ ret.details.total_checks = 0
           /\ ret.details.passed = 0
           /\ ret.details.failed = 0
           /\ ret.details.row_count = 0
           /\ trace = <<>>
           /\ results = <<>>
           /\ df = orig

C1_Witness ==
    /\ Called
    /\ orig.kind = "frame"
    /\ Len(orig.rows) = 0
    /\ HasRequiredColumns(orig)
    /\ ret.failed_checks = <<"empty_dataframe">>

\* C2: a call on a non-empty batch that lacks required columns returns
\* success = false and the name of every missing column is in failed_checks.
C2_MissingColumnsReported ==
    (Called /\ NonEmptyFrame(orig) /\ ~HasRequiredColumns(orig))
        => /\ Returns
           /\ ret.success = FALSE
           /\ \A c \in RequiredColumns \ orig.cols : c \in Range(ret.failed_checks)

\* Every value of the batch is as the rule set asks: non-nullable columns without
\* null, categorical values in their sets, numeric values within their inclusive
\* bounds, TotalCharges >= MonthlyCharges in every row.
AllValid(d) ==
    \A i \in DOMAIN d.rows :
        /\ \A c \in NonNullableColumns : ~IsNull(d.rows[i][c])
        /\ \A k \in DOMAIN VALIDATION_CONFIG.categorical_constraints :
              LET cc == VALIDATION_CONFIG.categorical_constraints[k]
              IN  d.rows[i][cc.col].t = "str" /\ d.rows[i][cc.col].s \in cc.allowed
        /\ \A k \in DOMAIN VALIDATION_CONFIG.numeric_ranges :
              LET nr == VALIDATION_CONFIG.numeric_ranges[k]
                  c == d.rows[i][nr.col]
              IN  /\ ~NotNumeric(c)
                  /\ 10 * nr.min <= NumberOf(c)
                  /\ NumberOf(c) <= 10 * nr.max
        /\ ~NotNumeric(d.rows[i]["TotalCharges"])
        /\ ~NotNumeric(d.rows[i]["MonthlyCharges"])
        /\ NumberOf(d.rows[i]["TotalCharges"]) >= NumberOf(d.rows[i]["MonthlyCharges"])

\* C3: a call on a non-empty batch with every required column and only valid
\* values returns success = true, no failed check, failed = 0, passed =
\* total_checks and row_count = the number of rows.
C3_ValidBatchPasses ==
    (Called /\ NonEmptyFrame(orig) /\ HasRequiredColumns(orig) /\ AllValid(orig))
        => /\ Returns
           /\ ret.success = TRUE
           /\ ret.failed_checks = <<>>
           /\ ret.details.failed = 0
           /\ ret.details.passed = ret.details.total_checks
           /\ ret.details.row_count = Len(orig.rows)

C3_Witness ==
    /\ Called
    /\ orig = SampleBatch
    /\ ret.success = TRUE
    /\ ret.details.row_count = 3

\* The rows of the batch, as coerced, with TotalCharges >= MonthlyCharges.
Consistent(d) ==
    {i \in DOMAIN d.rows : d.rows[i]["TotalCharges"].n >= d.rows[i]["MonthlyCharges"].n}

\* The rows of the batch as supplied with TotalCharges below MonthlyCharges once
\* coerced.
BelowAsSupplied(d) ==
    {i \in DOMAIN d.rows :
        (IF NotNumeric(d.rows[i]["TotalCharges"]) THEN 0
         ELSE NumberOf(d.rows[i]["TotalCharges"]))
        < (IF NotNumeric(d.rows[i]["MonthlyCharges"]) THEN 0
           ELSE NumberOf(d.rows[i]["MonthlyCharges"]))}

\* C4: whenever the suite was evaluated on a batch of n rows, the consistency
\* rule passed if and only if at least 95% of the n rows have TotalCharges >=
\* MonthlyCharges after coercion: 6% of rows below fails, 5% and 4% pass.
C4_ConsistencyTolerance ==
    (Called /\ results # <<>>)
        => /\ ConsistencyResult.success
                <=> (100 * Cardinality(Consistent(df)) >= 95 * Len(df.rows))
           /\ (100 * Cardinality(BelowAsSupplied(orig)) = 6 * Len(orig.rows))
                => ~ConsistencyResult.success
           /\ (100 * Cardinality(BelowAsSupplied(orig)) \in {4 * Len(orig.rows), 5 * Len(orig.rows)})
                => ConsistencyResult.success

C4_Witness ==
    /\ Called
    /\ results # <<>>
    /\ Len(orig.rows) = 20
    /\ Cardinality(BelowAsSupplied(orig)) = 1
    /\ orig.rows[1]["TotalCharges"] = Str("N/A")
    /\ ConsistencyResult.success

\* C5: on a non-empty batch with every required column, a value of a numeric
\* column that is not a number is 0 after the call, the call does not end in
\* validation_error, and the range rule of a column whose numbers are all within
\* bounds passes whatever non-numeric values the column held.
C5_NonNumericBecomesZero ==
    (Called /\ NonEmptyFrame(orig) /\ HasRequiredColumns(orig))
        => /\ Returns
           /\ ret.failed_checks # <<"validation_error">>
           /\ results # <<>>
           /\ \A i \in DOMAIN orig.rows : \A c \in NumericColumns :
                 NotNumeric(orig.rows[i][c]) => df.rows[i][c] = Num(0)
           /\ \A k \in DOMAIN VALIDATION_CONFIG.numeric_ranges :
                 LET nr == VALIDATION_CONFIG.numeric_ranges[k]
                 IN  (\A i \in DOMAIN orig.rows :
                         \/ NotNumeric(orig.rows[i][nr.col])
                         \/ (10 * nr.min <= NumberOf(orig.rows[i][nr.col])
                             /\ NumberOf(orig.rows[i][nr.col]) <= 10 * nr.max))
                     => RuleResult("expect_column_values_to_be_between", nr.col).success

C5_Witness ==
    /\ Called
    /\ NonEmptyFrame(orig)
    /\ HasRequiredColumns(orig)
    /\ orig.rows[1]["TotalCharges"] = Str("N/A")
    /\ df.rows[1]["TotalCharges"] = Num(0)
    /\ RuleResult("expect_column_values_to_be_between", "TotalCharges").success

\* C6: every call returns a result, no exception reaches the caller; a call in
\* which a step raised returns success = false, failed_checks =
\* ["validation_error"], the error and row_count = the number of rows.
C6_NoExceptionReachesCaller ==
    Called
        => /\ Returns
           /\ (trace # <<>> /\ trace[Len(trace)] = "except")
                => /\ ret.success = FALSE
                   /\ ret.failed_checks = <<"validation_error">>
                   /\ "error" \in DOMAIN ret.details
                   /\ ret.details.row_count = Len(df.rows)

\* The success flag, the failed checks, the counts and the row count of two
\* outcomes agree.
SameOutcome(a, b) ==
    /\ a.kind = b.kind
    /\ a.kind = "raise" => a.exc = b.exc
    /\ a.kind = "return" =>
          /\ a.success = b.success
          /\ a.failed_checks = b.failed_checks
          /\ a.details.row_count = b.details.row_count
          /\ DOMAIN a.details = DOMAIN b.details
          /\ "total_checks" \in DOMAIN a.details =>
                /\ a.details.total_checks = b.details.total_checks
                /\ a.details.passed = b.details.passed
                /\ a.details.failed = b.details.failed

\* C7: a call that follows another call on the same batch has the same outcome
\* as that call.
C7_SecondCallSameOutcome ==
    [][(Called /\ calls' = calls + 1) => SameOutcome(ret, ret')]_vars

C7_Witness ==
    /\ calls = 2
    /\ df # orig
    /\ Returns
    /\ results # <<>>
    /\ ~ret.success

\* The identifiers of the failed results from the i-th result on, in order.
RECURSIVE FailedIdentifiersFrom(_, _)
FailedIdentifiersFrom(res, i) ==
    IF i > Len(res) THEN <<>>
    ELSE (IF res[i].success THEN <<>> ELSE <<res[i].expectation_config.expectation_context>>)
         \o FailedIdentifiersFrom(res, i + 1)

C9_NullInNonNullableFails ==
    (Called /\ NonEmptyFrame(orig) /\ HasRequiredColumns(orig))
        => \A c \in NonNullableColumns :
              (\E i \in DOMAIN orig.rows : IsNull(orig.rows[i][c]))
                  => /\ Returns
                     /\ ret.success = FALSE
                     /\ results # <<>>
                     /\ ~RuleResult("expect_column_values_to_not_be_null", c).success

\* C10: whatever calls were made, the batch has the rows and the columns it was
\* supplied with, every cell outside the numeric columns is as supplied, a cell of
\* a numeric column differs in value only where it was not a number, and is then
\* 0, and the rule configuration is the static one.
C10_Frame ==
    /\ df.kind = orig.kind
    /\ df.cols = orig.cols
    /\ Len(df.rows) = Len(orig.rows)
    /\ \A i \in DOMAIN orig.rows :
          /\ DOMAIN df.rows[i] = DOMAIN orig.rows[i]
          /\ \A c \in DOMAIN orig.rows[i] :
                IF c \notin NumericColumns THEN df.rows[i][c] = orig.rows[i][c]
                ELSE \/ df.rows[i][c] = orig.rows[i][c]
                     \/ NotNumeric(orig.rows[i][c]) /\ df.rows[i][c] = Num(0)
                     \/ ~NotNumeric(orig.rows[i][c]) /\ df.rows[i][c] = Num(NumberOf(orig.rows[i][c]))
    /\ config = VALIDATION_CONFIG

C10_Witness ==
    /\ Called
    /\ NonEmptyFrame(orig)
    /\ Len(orig.rows) = 2
    /\ orig.rows[1]["tenure"] = Str("N/A")
    /\ df.rows[1]["tenure"] = Num(0)
    /\ df.rows[2] = orig.rows[2]
====
